---- MODULE Spec2Model ----
(***************************************************************************)
(* clusterdock: the node/cluster/network lifecycle (models.py), the        *)
(* ownership-label codec and inventory scan (utils.py), teardown           *)
(* (actions/manage.py) and file copy (actions/cp.py), run against a        *)
(* container engine that owns containers, networks and images.             *)
(*                                                                         *)
(* Python strings are TLA+ strings; str.format / '+' is \o.  A string that *)
(* the code searches or splits (the cp endpoints) is a sequence of pieces, *)
(* the separator ":" being a piece of its own.  Python's None is the       *)
(* string None below.  A raised exception is the status of the result.     *)
(***************************************************************************)
EXTENDS Integers, Sequences, FiniteSets, TLC

\* ------------------------------------------------------------ bounds ----
\* Container ids are 1..MaxContainers: the engine holds at most that many.
MaxContainers == 3

\* --------------------------------------------------- program constants --
None == "<None>"

\* models.py:36
DEFAULT_NETWORK_TYPE == "bridge"
\* the label key every scan reads: defaults['DEFAULT_DOCKER_LABEL_KEY']
DEFAULT_DOCKER_LABEL_KEY == "org.apache.clusterdock"
\* utils.py:57
DEFAULT_TIME_BETWEEN_CHECKS == 1
\* models.py:346-348: Node.start waits with timeout=30
NODE_START_TIMEOUT == 30

\* ----------------------------------------------------- the environment --
\* Networks the engine defines itself and refuses to remove.
PredefinedNets == {"bridge"}
\* Names of user-defined networks a cluster is started on.
UserNets == {"net1", "net2"}
NetNames == PredefinedNets \cup UserNets

\* Images: "ok" is in the local store from the beginning, "remote" is only in
\* the registry until it is pulled, "absent" is nowhere, and a container of
\* "exits" leaves the running state as soon as it is started.  "untagged" is
\* a repository the registry serves without the tag the bare name resolves
\* to: pulling it succeeds and leaves no image of that name.
Images == {"ok", "remote", "absent", "exits", "untagged"}
InitialLocalImages == {"ok", "exits"}
Registry == {"ok", "remote", "exits"}
Untagged == {"untagged"}

ContainerIds == 1..MaxContainers

\* ---------------------------------------------------------- json, dict --
\* A dict is a function; its JSON text is the sequence of its items in
\* insertion order, and the empty text '' is the empty sequence.
LabelKeyOrder == <<"name", "version", "location", "cluster_name">>

RECURSIVE DumpItems(_, _, _)
DumpItems(dict, order, i) ==
    IF i > Len(order) THEN <<>>
    ELSE (IF order[i] \in DOMAIN dict THEN << <<order[i], dict[order[i]]>> >> ELSE <<>>)
         \o DumpItems(dict, order, i + 1)

\* json.dumps(label_info)
json_dumps(dict) == DumpItems(dict, LabelKeyOrder, 1)

JSONDecodeError == [error |-> "JSONDecodeError"]

\* json.loads(text): the dict of the items, the last item of a key winning;
\* the empty text is not JSON.
json_loads(text) ==
    IF text = <<>> THEN JSONDecodeError
    ELSE LET keys == {text[i][1] : i \in DOMAIN text}
             lastOf(k) == CHOOSE i \in DOMAIN text :
                              /\ text[i][1] = k
                              /\ \A j \in DOMAIN text : text[j][1] = k => j <= i
         IN [k \in keys |-> text[lastOf(k)][2]]

\* Python truthiness of an optional string.
Truthy(s) == s # None /\ s # ""

\* utils.py get_clusterdock_label: the package metadata is looked up with
\* get_distribution, which raises when clusterdock is not installed as a
\* distribution; the bare except then leaves label_str = ''.
get_clusterdock_label(cluster_name, installed) ==
    IF ~installed THEN <<>>
    ELSE LET label_info == [k \in {"name", "version", "location"} |->
                               CASE k = "name" -> "clusterdock"
                                 [] k = "version" -> "2.0.2"
                                 [] k = "location" -> "/site-packages"]
             with_name == [k \in DOMAIN label_info \cup {"cluster_name"} |->
                               IF k = "cluster_name" THEN cluster_name ELSE label_info[k]]
         IN json_dumps(IF Truthy(cluster_name) THEN with_name ELSE label_info)

\* A variant that reads the package name where the cluster name is.
DecodeClusterName_WrongKey(text) ==
    LET label == json_loads(text)
    IN IF label = JSONDecodeError THEN [error |-> "JSONDecodeError"]
       ELSE IF "name" \notin DOMAIN label THEN [error |-> "KeyError"]
       ELSE [value |-> label["name"]]

\* The decoding every reader performs (utils.py:234-235, manage.py:56-57,
\* ps.py:37,49): json.loads, then label['cluster_name'].
DecodeClusterName(text) ==
    LET label == json_loads(text)
    IN IF label = JSONDecodeError THEN [error |-> "JSONDecodeError"]
       ELSE IF "cluster_name" \notin DOMAIN label THEN [error |-> "KeyError"]
       ELSE [value |-> label["cluster_name"]]

\* -------------------------------------------------------------- engine --
VARIABLES
    containers,   \* engine: container id -> its inspect attributes
    networks,     \* engine: network name -> number of networks of that name
    images,       \* engine: images in the local store
    last          \* what the most recent invocation did and returned

vars == <<containers, networks, images, last>>

EmptyDict == [k \in {} |-> k]

Engine == [containers |-> containers, networks |-> networks, images |-> images]

\* container.short_id
ShortId(id) == "c" \o ToString(id)

\* client.containers.list(): running containers only.
ListRunning(e) == {id \in DOMAIN e.containers : e.containers[id].running}
\* client.containers.list(all=True)
ListAll(e) == DOMAIN e.containers
\* client.networks.list()
ListNetworks(e) == {n \in NetNames : e.networks[n] > 0}
\* Network.containers: the containers with an endpoint on the network, which
\* the engine keeps for running containers only.
NetworkContainers(e, name) ==
    {id \in DOMAIN e.containers :
        e.containers[id].running /\ name \in DOMAIN e.containers[id].networks}

\* The id the engine gives the next container.
FreshId(e) == CHOOSE id \in ContainerIds \ DOMAIN e.containers :
                  \A other \in ContainerIds \ DOMAIN e.containers : id <= other

\* The engine's explanation of a refused network creation.
AlreadyExistsExplanation(name) == "network with name " \o name \o " already exists"

\* client.networks.create(name, driver, check_duplicate=True)
NetworksCreate(e, name) ==
    IF e.networks[name] > 0
    THEN [engine |-> e, error |-> AlreadyExistsExplanation(name)]
    ELSE [engine |-> [e EXCEPT !.networks[name] = 1], error |-> None]

\* client.images.pull(image)
ImagesPull(e, image) ==
    IF image \in Registry
    THEN [engine |-> [e EXCEPT !.images = @ \cup {image}], raised |-> None]
    ELSE IF image \in Untagged THEN [engine |-> e, raised |-> None]
    ELSE [engine |-> e, raised |-> "ImageNotFound"]

\* ------------------------------------------------- wait_for_condition --
\* utils.py:86-103.  The clock moves only in sleep(); condition is the
\* outcome of each check by time.  NotStarted stands for
\* success_start_time = None.
NotStarted == 0 - 1

\* A variant in which a false outcome does not end the hold period.
RECURSIVE WaitLoop_NoReset(_, _, _, _, _, _, _)
WaitLoop_NoReset(condition, now, start_time, stop_time, success_start_time, time_to_success, time_between_checks) ==
    IF ~(now < stop_time)
    THEN [called |-> "failure", arg |-> stop_time - start_time]
    ELSE LET sst == IF condition[now] /\ success_start_time = NotStarted
                    THEN now ELSE success_start_time
         IN IF condition[now] /\ now >= sst + time_to_success
            THEN [called |-> "success", arg |-> now - start_time]
            ELSE WaitLoop_NoReset(condition, now + time_between_checks, start_time,
                                  stop_time, sst, time_to_success, time_between_checks)

RECURSIVE WaitLoop(_, _, _, _, _, _, _)
WaitLoop(condition, now, start_time, stop_time, success_start_time, time_to_success, time_between_checks) ==
    IF ~(now < stop_time)
    THEN [called |-> "failure", arg |-> stop_time - start_time]
    ELSE IF condition[now]
         THEN LET sst == IF success_start_time # NotStarted
                         THEN success_start_time ELSE now
              IN IF now >= sst + time_to_success
                 THEN [called |-> "success", arg |-> now - start_time]
                 ELSE WaitLoop(condition, now + time_between_checks, start_time,
                               stop_time, sst, time_to_success, time_between_checks)
         ELSE WaitLoop(condition, now + time_between_checks, start_time,
                       stop_time, NotStarted, time_to_success, time_between_checks)

wait_for_condition(condition, time_between_checks, timeout, time_to_success) ==
    WaitLoop(condition, 0, 0, timeout, NotStarted, time_to_success, time_between_checks)

\* ---------------------------------------------------------------- Node --
\* Node.__init__: the object's attributes after construction.  The keyword
\* arguments beyond image/ports/volumes/devices go to create_container as
\* they are; "labels" is the one the model follows.
Node(hostname, group, image, create_container_kwargs) ==
    [hostname |-> hostname, group |-> group, image |-> image,
     create_container_kwargs |-> create_container_kwargs]

\* A variant that never binds host_ports.
SetAttr_NotHostPorts(obj, name, value) ==
    IF name = "host_ports" THEN obj ELSE [k \in {name} |-> value] @@ obj

\* self.<name> = value
SetAttr(obj, name, value) == [k \in {name} |-> value] @@ obj

\* A variant that formats the two names the other way round.
Fqdn_Swapped(hostname, network) == network \o "." \o hostname

\* models.py:232  '{}.{}'.format(self.hostname, network)
Fqdn(hostname, network) == hostname \o "." \o network

\* A variant that pulls and creates again for as long as the image is not
\* found, giving up after the third attempt.
CreateContainer_KeepsRetrying(e, image) ==
    IF image \in e.images
    THEN [engine |-> e, raised |-> None, pulls |-> <<>>, creates |-> 1]
    ELSE LET pull == ImagesPull(e, image)
         IN IF pull.raised # None
            THEN [engine |-> e, raised |-> pull.raised, pulls |-> <<image>>, creates |-> 1]
            ELSE IF image \in pull.engine.images
            THEN [engine |-> pull.engine, raised |-> None,
                  pulls |-> <<image>>, creates |-> 2]
            ELSE [engine |-> pull.engine, raised |-> "ImageNotFound",
                  pulls |-> <<image, image>>, creates |-> 3]

\* models.py:313-327: create_container; on ImageNotFound images.pull and
\* create_container once more.  pulls are the images.pull calls made,
\* creates the number of create_container calls.
CreateContainer(e, image) ==
    IF image \in e.images
    THEN [engine |-> e, raised |-> None, pulls |-> <<>>, creates |-> 1]
    ELSE LET pull == ImagesPull(e, image)
         IN IF pull.raised # None
            THEN [engine |-> e, raised |-> pull.raised, pulls |-> <<image>>, creates |-> 1]
            ELSE [engine |-> pull.engine,
                  raised |-> IF image \in pull.engine.images THEN None
                             ELSE "ImageNotFound",
                  pulls |-> <<image>>, creates |-> 2]

\* Node.start(network) on engine e.  Returns the engine, the node object and
\* the exception that left the method (None when it returned).
NodeStart(e, node, network) ==
    LET n1 == SetAttr(node, "fqdn", Fqdn(node.hostname, network))
        id == FreshId(e)
        kwargs == node.create_container_kwargs
        created == [hostname |-> n1.fqdn,
                    running |-> FALSE,
                    labels |-> IF "labels" \in DOMAIN kwargs THEN kwargs.labels
                               ELSE EmptyDict,
                    networks |-> [n \in {network} |-> <<node.hostname, ShortId(id)>>]]
        create == CreateContainer(e, node.image)
        e1 == create.engine
    IN IF create.raised # None
       THEN [engine |-> e1, node |-> n1, raised |-> create.raised,
             pulls |-> create.pulls, creates |-> create.creates, waited |-> None]
       ELSE LET \* client.api.start: the container runs, unless its process exits
                stays == node.image # "exits"
                e2 == [e1 EXCEPT !.containers =
                          [k \in {id} |-> [created EXCEPT !.running = stays]] @@ @]
                n2 == SetAttr(n1, "container", id)
                wait == wait_for_condition([t \in 0..NODE_START_TIMEOUT |-> stays],
                                           DEFAULT_TIME_BETWEEN_CHECKS,
                                           NODE_START_TIMEOUT, 0)
                \* the failure callback of Node.start only logs, so both
                \* outcomes return here
                n3 == SetAttr(n2, "ip_address",
                              IF stays THEN "10.0.0." \o ToString(id) ELSE "")
                n4 == SetAttr(n3, "host_ports", EmptyDict)
            IN [engine |-> e2, node |-> n4, raised |-> None,
                pulls |-> create.pulls,
                creates |-> create.creates,
                waited |-> wait.called]

\* ------------------------------------------------------------- Cluster --
\* A variant that makes a group of its own for every node.
RECURSIVE BuildGroups_AlwaysNew(_, _, _)
BuildGroups_AlwaysNew(nodes, i, groups) ==
    IF i > Len(nodes) THEN groups
    ELSE BuildGroups_AlwaysNew(nodes, i + 1,
                               Append(groups, [name |-> nodes[i].group, nodes |-> <<i>>]))

\* Cluster.__init__: node_groups, in the order the groups are first seen,
\* each with its members (indices into nodes) in argument order.
RECURSIVE BuildGroups(_, _, _)
BuildGroups(nodes, i, groups) ==
    IF i > Len(nodes) THEN groups
    ELSE LET g == nodes[i].group
             known == \E j \in DOMAIN groups : groups[j].name = g
         IN BuildGroups(nodes, i + 1,
                IF known
                THEN [j \in DOMAIN groups |->
                         IF groups[j].name = g
                         THEN [groups[j] EXCEPT !.nodes = Append(@, i)]
                         ELSE groups[j]]
                ELSE Append(groups, [name |-> g, nodes |-> <<i>>]))

Cluster(nodes) == [nodes |-> nodes, node_groups |-> BuildGroups(nodes, 1, <<>>)]

\* The members of the groups one group after the other: indices into
\* cluster.nodes, groups in order, members in order.
RECURSIVE Flatten(_, _)
Flatten(groups, i) ==
    IF i > Len(groups) THEN <<>> ELSE groups[i].nodes \o Flatten(groups, i + 1)

\* A variant that yields the nodes group by group.
ClusterIter_ByGroup(cluster) == Flatten(cluster.node_groups, 1)

\* Cluster.__iter__: for node in self.nodes: yield node.  The node objects
\* are named by their positions in cluster.nodes.
ClusterIter(cluster) == [i \in DOMAIN cluster.nodes |-> i]

\* A variant that re-raises every error of the creation.
SetupNetwork_Reraises(e, name) ==
    LET r == NetworksCreate(e, name)
    IN IF r.error = None THEN [engine |-> r.engine, raised |-> None, created |-> TRUE]
       ELSE [engine |-> e, raised |-> "APIError", created |-> FALSE]

\* Cluster._setup_network(name)
SetupNetwork(e, name) ==
    LET r == NetworksCreate(e, name)
    IN IF r.error = None THEN [engine |-> r.engine, raised |-> None, created |-> TRUE]
       ELSE IF r.error = "network with name " \o name \o " already exists"
            THEN [engine |-> e, raised |-> None, created |-> FALSE]
            ELSE [engine |-> e, raised |-> "APIError", created |-> FALSE]

\* sorted(): the elements in the order of HostnameOrder
HostnameOrder == <<"node-1", "node-2", "node-3">>
Sorted(S) == SelectSeq(HostnameOrder, LAMBDA h : h \in S)

\* A variant that removes the containers of the nodes already started when
\* a node fails to start.
RECURSIVE StartNodes_RollsBack(_, _, _, _)
StartNodes_RollsBack(acc, order, network, i) ==
    IF i > Len(order) THEN acc
    ELSE LET r == NodeStart(acc.engine, acc.nodes[order[i]], network)
             next == [acc EXCEPT !.engine = r.engine,
                                 !.nodes = [acc.nodes EXCEPT ![order[i]] = r.node],
                                 !.raised = r.raised,
                                 !.started = Append(acc.started, r.node.hostname),
                                 !.pulls = acc.pulls \o r.pulls,
                                 !.node_pulls = Append(acc.node_pulls, Len(r.pulls)),
                                 !.creates = Append(acc.creates, r.creates),
                                 !.waited = Append(acc.waited, r.waited)]
             earlier == {acc.nodes[order[j]].container : j \in 1..(i - 1)}
         IN IF r.raised = None
            THEN StartNodes_RollsBack(next, order, network, i + 1)
            ELSE [next EXCEPT !.engine.containers =
                                  [k \in DOMAIN @ \ earlier |-> @[k]]]

\* for node in self: node.start(self.network), stopping at the first raise;
\* order is what iterating the cluster yields.
RECURSIVE StartNodes(_, _, _, _)
StartNodes(acc, order, network, i) ==
    IF i > Len(order) \/ acc.raised # None THEN acc
    ELSE LET r == NodeStart(acc.engine, acc.nodes[order[i]], network)
         IN StartNodes([engine |-> r.engine,
                        nodes |-> [acc.nodes EXCEPT ![order[i]] = r.node],
                        raised |-> r.raised,
                        started |-> Append(acc.started, r.node.hostname),
                        pulls |-> acc.pulls \o r.pulls,
                        node_pulls |-> Append(acc.node_pulls, Len(r.pulls)),
                        creates |-> Append(acc.creates, r.creates),
                        waited |-> Append(acc.waited, r.waited),
                        duplicates |-> acc.duplicates,
                        error_network |-> acc.error_network,
                        network_created |-> acc.network_created],
                       order, network, i + 1)

\* A variant that finds no hostname taken.
DuplicateHostnames_None(containers_attached_to_network, hostnames) == {}

\* A variant that names every hostname of the cluster once one collides.
DuplicateHostnames_All(containers_attached_to_network, hostnames) ==
    IF containers_attached_to_network \cap hostnames = {} THEN {} ELSE hostnames

\* models.py:92-93  set(containers_attached_to_network) & set(node.hostname ...)
DuplicateHostnames(containers_attached_to_network, hostnames) ==
    containers_attached_to_network \cap hostnames

\* Cluster.start(network, pull_images, update_etc_hosts)
ClusterStart(e, cluster, network, pull_images) ==
    LET net == SetupNetwork(e, network)
        e1 == net.engine
        attached == NetworkContainers(e1, network)
        containers_attached_to_network ==
            {e1.containers[id].networks[network][1] : id \in attached}
        duplicate_hostnames ==
            DuplicateHostnames(containers_attached_to_network,
                               {cluster.nodes[i].hostname : i \in DOMAIN cluster.nodes})
        base == [engine |-> e1, nodes |-> cluster.nodes, raised |-> None,
                 started |-> <<>>, pulls |-> <<>>, node_pulls |-> <<>>,
                 creates |-> <<>>, waited |-> <<>>,
                 duplicates |-> <<>>, error_network |-> None,
                 network_created |-> net.created]
    IN IF net.raised # None THEN [base EXCEPT !.raised = net.raised]
       ELSE IF attached # {} /\ duplicate_hostnames # {}
       THEN [base EXCEPT !.raised = "DuplicateHostnamesError",
                         !.duplicates = Sorted(duplicate_hostnames),
                         !.error_network = network]
       ELSE StartNodes(base, ClusterIter(cluster), network, 1)

\* -------------------------------------------------- inventory scanning --
\* The scan of manage._get_containers(label_check) and of
\* utils.get_containers(clusterdock): a list of (container, cluster name),
\* in the engine's listing order, or the exception decoding a label raised.
RECURSIVE ScanFrom(_, _, _, _)
ScanFrom(e, label_check, id, acc) ==
    IF id > MaxContainers \/ acc.raised # None THEN acc
    ELSE IF id \notin ListAll(e) THEN ScanFrom(e, label_check, id + 1, acc)
    ELSE IF ~label_check
         THEN ScanFrom(e, label_check, id + 1,
                       [acc EXCEPT !.tuples = Append(@, <<id, None>>)])
    ELSE LET labels == e.containers[id].labels
         IN IF DEFAULT_DOCKER_LABEL_KEY \notin DOMAIN labels
            THEN ScanFrom(e, label_check, id + 1, acc)
            ELSE LET name == DecodeClusterName(labels[DEFAULT_DOCKER_LABEL_KEY])
                 IN IF "error" \in DOMAIN name
                    THEN [acc EXCEPT !.raised = name.error]
                    ELSE ScanFrom(e, label_check, id + 1,
                                  [acc EXCEPT !.tuples = Append(@, <<id, name.value>>)])

_get_containers(e, label_check) ==
    IF ListRunning(e) = {} THEN [tuples |-> <<>>, raised |-> None]
    ELSE ScanFrom(e, label_check, 1, [tuples |-> <<>>, raised |-> None])

\* ------------------------------------------------------------ teardown --
\* The engine's explanation of a refused network removal, in pieces.
PredefinedPiece == " is a pre-defined network and cannot be removed"
ActiveEndpointsPiece == " has active endpoints"
OtherPiece == " could not be removed by its driver"

Contains(pieces, piece) == \E i \in DOMAIN pieces : pieces[i] = piece

\* network.remove(): faulty are the networks whose removal fails inside the
\* engine for a reason of its own.
NetworkRemove(e, name, faulty) ==
    IF name \in PredefinedNets
    THEN [engine |-> e, error |-> <<name, PredefinedPiece>>]
    ELSE IF NetworkContainers(e, name) # {}
    THEN [engine |-> e, error |-> <<"network ", name, ActiveEndpointsPiece>>]
    ELSE IF name \in faulty
    THEN [engine |-> e, error |-> <<"network ", name, OtherPiece>>]
    ELSE [engine |-> [e EXCEPT !.networks[name] = @ - 1], error |-> <<>>]

\* A variant that forgets the guard.
Mutates_Always(dry_run) == TRUE

\* manage.py:74 and :93  `if not dry_run:` guards every mutating call.
Mutates(dry_run) == ~dry_run

\* The first loop of _nuke_containers_and_networks (manage.py:63-77).
RECURSIVE RemoveContainers(_, _, _, _, _)
RemoveContainers(acc, containers_tup, dry_run, remove_network, i) ==
    IF i > Len(containers_tup) THEN acc
    ELSE LET container == containers_tup[i][1]
             cluster_name == containers_tup[i][2]
             attrs == acc.engine.containers[container]
             container_hostname == attrs.hostname
             logged == Append(acc.log, <<"Removing container", container_hostname,
                                         ShortId(container), cluster_name>>)
             nets == IF remove_network
                     THEN acc.containers_networks \cup DOMAIN attrs.networks
                     ELSE acc.containers_networks
         IN RemoveContainers(
                IF ~Mutates(dry_run)
                THEN [acc EXCEPT !.log = logged, !.containers_networks = nets]
                ELSE [acc EXCEPT
                         !.log = logged,
                         !.containers_networks = nets,
                         !.calls = @ \o << <<"containers.run", container_hostname>>,
                                           <<"container.remove", container>> >>,
                         !.engine.containers =
                             [k \in DOMAIN @ \ {container} |-> @[k]],
                         !.removed_containers = Append(@, container_hostname)],
                containers_tup, dry_run, remove_network, i + 1)

\* A variant that passes over every error of the engine.
Swallowed_Any(explanation) == TRUE

\* manage.py:97-99: the two explanations after which the loop goes on.
Swallowed(explanation) ==
    \/ Contains(explanation, PredefinedPiece)
    \/ Contains(explanation, ActiveEndpointsPiece)

\* The second loop (manage.py:89-101) over networks_to_remove.
RECURSIVE RemoveNetworks(_, _, _, _, _)
RemoveNetworks(acc, networks_to_remove, dry_run, faulty, i) ==
    IF i > Len(networks_to_remove) \/ acc.raised # None THEN acc
    ELSE LET name == networks_to_remove[i]
             logged == Append(acc.log, <<"Removing network", name>>)
         IN IF ~Mutates(dry_run)
            THEN RemoveNetworks([acc EXCEPT !.log = logged],
                                networks_to_remove, dry_run, faulty, i + 1)
            ELSE LET r == NetworkRemove(acc.engine, name, faulty)
                     called == Append(acc.calls, <<"network.remove", name>>)
                 IN IF r.error = <<>>
                    THEN RemoveNetworks(
                             [acc EXCEPT !.log = logged, !.calls = called,
                                         !.engine = r.engine,
                                         !.removed_networks = Append(@, name)],
                             networks_to_remove, dry_run, faulty, i + 1)
                    ELSE IF Swallowed(r.error)
                    THEN RemoveNetworks([acc EXCEPT !.log = logged, !.calls = called],
                                        networks_to_remove, dry_run, faulty, i + 1)
                    ELSE [acc EXCEPT !.log = logged, !.calls = called,
                                     !.raised = "APIError"]

\* A variant in which remove takes every network of the host, as nuke does.
NetworksWanted_All(e, nuke_networks, containers_networks) == ListNetworks(e)

\* manage.py:82-87: the networks removal is attempted on.
NetworksWanted(e, nuke_networks, containers_networks) ==
    IF nuke_networks THEN ListNetworks(e) ELSE containers_networks

\* A variant that reports no removed network.
ReportRemoved_Silent(removed_networks, i) == <<>>

RECURSIVE ReportRemoved(_, _)
ReportRemoved(removed_networks, i) ==
    IF i > Len(removed_networks) THEN <<>>
    ELSE << <<"Removed network", removed_networks[i]>> >>
         \o ReportRemoved(removed_networks, i + 1)

\* A variant that treats an empty selection as an error.
NothingRemoved_Raises(acc, dry_run) ==
    IF ~dry_run /\ acc.removed_containers = <<>>
    THEN [acc EXCEPT !.raised = "RuntimeError"]
    ELSE acc

\* manage.py:79-80: the warning of a live run that removed no container.
NothingRemoved(acc, dry_run) ==
    IF ~dry_run /\ acc.removed_containers = <<>>
    THEN [acc EXCEPT !.log = Append(@, <<"Didn't find any containers to remove">>)]
    ELSE acc

\* A variant that attempts the networks before it removes the containers.
_nuke_NetworksFirst(e, log, containers_tup, dry_run, nuke_networks, remove_network, order, faulty) ==
    LET start == [engine |-> e, log |-> log, calls |-> <<>>, raised |-> None,
                  removed_containers |-> <<>>, removed_networks |-> <<>>,
                  containers_networks |-> {}, candidates |-> <<>>]
        nets == IF remove_network
                THEN UNION {DOMAIN e.containers[containers_tup[i][1]].networks :
                               i \in DOMAIN containers_tup}
                ELSE {}
        wanted == NetworksWanted(e, nuke_networks, nets)
        networks_to_remove == SelectSeq(order, LAMBDA n : n \in wanted)
        a1 == RemoveNetworks([start EXCEPT !.candidates = networks_to_remove],
                             networks_to_remove, dry_run, faulty, 1)
    IN IF a1.raised # None THEN a1
       ELSE RemoveContainers(a1, containers_tup, dry_run, remove_network, 1)

\* _nuke_containers_and_networks(containers_tup, dry_run, nuke_networks,
\* remove_network).  order is the order in which the engine lists networks
\* and in which the set of network names is iterated.
_nuke_containers_and_networks(e, log, containers_tup, dry_run, nuke_networks, remove_network, order, faulty) ==
    LET start == [engine |-> e, log |-> log, calls |-> <<>>, raised |-> None,
                  removed_containers |-> <<>>, removed_networks |-> <<>>,
                  containers_networks |-> {}, candidates |-> <<>>]
        a1 == RemoveContainers(start, containers_tup, dry_run, remove_network, 1)
        a2 == NothingRemoved(a1, dry_run)
        wanted == NetworksWanted(a2.engine, nuke_networks, a2.containers_networks)
        networks_to_remove == SelectSeq(order, LAMBDA n : n \in wanted)
        \* client.networks.get(network_name)
        missing == ~nuke_networks /\ \E n \in wanted : a2.engine.networks[n] = 0
        a3 == RemoveNetworks([a2 EXCEPT !.candidates = networks_to_remove],
                             networks_to_remove, dry_run, faulty, 1)
    IN IF missing THEN [a2 EXCEPT !.raised = "NotFound"]
       ELSE IF a3.raised # None THEN a3
       ELSE IF a3.removed_networks # <<>>
       THEN [a3 EXCEPT !.log = (Append(@, <<"Removed user-defined networks">>))
                                \o ReportRemoved(a3.removed_networks, 1)]
       ELSE IF ~dry_run /\ remove_network
       THEN [a3 EXCEPT !.log = Append(@, <<"Cannot remove network">>)]
       ELSE a3

Raise(e, log, exception) ==
    [engine |-> e, log |-> log, calls |-> <<>>, raised |-> exception,
     removed_containers |-> <<>>, removed_networks |-> <<>>,
     containers_networks |-> {}, candidates |-> <<>>]

\* manage.main(args); args is the namespace, a function of attribute names.
ManageMain(e, args, order, faulty) ==
    LET log == IF args.dry_run
               THEN << <<"All manage actions will be done in dry-run mode.">> >>
               ELSE <<>>
    IN IF args.manage_action = "nuke"
       THEN LET log1 == Append(log, <<"Stopping and removing containers",
                                      IF args.all THEN "all" ELSE "clusterdock">>)
                scan == _get_containers(e, ~args.all)
            IN IF scan.raised # None THEN Raise(e, log1, scan.raised)
               ELSE _nuke_containers_and_networks(e, log1, scan.tuples, args.dry_run,
                                                  TRUE, FALSE, order, faulty)
       ELSE IF "cluster_names" \notin DOMAIN args
       THEN Raise(e, log, "AttributeError")
       ELSE LET log1 == Append(log, <<"Stopping and removing containers from cluster(s)",
                                      args.cluster_names>>)
                scan == _get_containers(e, TRUE)
                containers_tup ==
                    SelectSeq(scan.tuples, LAMBDA t : t[2] \in args.cluster_names)
            IN IF scan.raised # None THEN Raise(e, log1, scan.raised)
               ELSE _nuke_containers_and_networks(e, log1, containers_tup, args.dry_run,
                                                  FALSE, args.network, order, faulty)

\* ------------------------------------------------------------------ cp --
\* str.split(':'): the pieces between the separators, joined.
RECURSIVE SplitFrom(_, _, _)
SplitFrom(s, i, current) ==
    IF i > Len(s) THEN <<current>>
    ELSE IF s[i] = ":" THEN <<current>> \o SplitFrom(s, i + 1, "")
    ELSE SplitFrom(s, i + 1, current \o s[i])

Split(s) == SplitFrom(s, 1, "")

\* A variant without the loop's else clause: the last container listed is
\* returned when none matches.
_find_container_NoElse(e, node) ==
    LET matches == {id \in ListRunning(e) : e.containers[id].hostname = node}
    IN IF ListRunning(e) = {} THEN [raised |-> "UnboundLocalError", node |-> node]
       ELSE [raised |-> None,
             container |-> IF matches # {}
                           THEN CHOOSE id \in matches : \A other \in matches : id <= other
                           ELSE CHOOSE id \in ListRunning(e) :
                                    \A other \in ListRunning(e) : id >= other]

\* cp._find_container(node): the first running container of that hostname.
_find_container(e, node) ==
    LET matches == {id \in ListRunning(e) : e.containers[id].hostname = node}
    IN IF matches = {} THEN [raised |-> "NodeNotFoundError", node |-> node]
       ELSE [raised |-> None,
             container |-> CHOOSE id \in matches : \A other \in matches : id <= other]

\* A variant without the comparison.
SameEndpoints_Never(source, destination) == FALSE

\* cp.py:30  args.source == args.destination
SameEndpoints(source, destination) == source = destination

\* cp.main(args): lookups are the calls of _find_container, copies the
\* `docker cp` commands run, as (source, destination).
CpMain(e, args) ==
    LET src == Split(args.source)
        dst == Split(args.destination)
        none == [raised |-> None, lookups |-> <<>>, copies |-> <<>>]
    IN IF SameEndpoints(args.source, args.destination)
       THEN [none EXCEPT !.raised = "ValueError"]
       ELSE IF Contains(args.source, ":") /\ Contains(args.destination, ":")
       THEN LET src_container == _find_container(e, src[1])
                dest_container == _find_container(e, dst[1])
            IN IF src_container.raised # None
               THEN [none EXCEPT !.raised = src_container.raised,
                                 !.lookups = <<src[1]>>]
               ELSE IF dest_container.raised # None
               THEN [none EXCEPT !.raised = dest_container.raised,
                                 !.lookups = <<src[1], dst[1]>>]
               ELSE [none EXCEPT
                        !.lookups = <<src[1], dst[1]>>,
                        !.copies = << <<ShortId(src_container.container) \o ":" \o src[2],
                                        "tmp_dir">>,
                                      <<"tmp_dir/*",
                                        ShortId(dest_container.container) \o ":" \o dst[2]>> >>]
       ELSE IF Contains(args.source, ":")
       THEN LET src_container == _find_container(e, src[1])
            IN IF src_container.raised # None
               THEN [none EXCEPT !.raised = src_container.raised,
                                 !.lookups = <<src[1]>>]
               ELSE [none EXCEPT
                        !.lookups = <<src[1]>>,
                        !.copies = << <<ShortId(src_container.container) \o ":" \o src[2],
                                        Split(args.destination)[1]>> >>]
       ELSE IF Contains(args.destination, ":")
       THEN LET dest_container == _find_container(e, dst[1])
            IN IF dest_container.raised # None
               THEN [none EXCEPT !.raised = dest_container.raised,
                                 !.lookups = <<dst[1]>>]
               ELSE [none EXCEPT
                        !.lookups = <<dst[1]>>,
                        !.copies = << <<Split(args.source)[1],
                                        ShortId(dest_container.container) \o ":" \o dst[2]>> >>]
       ELSE [none EXCEPT !.raised = "ValueError"]

\* ------------------------------------------------------ inputs, states --
OwnershipLabel(cluster_name, installed) ==
    [k \in {DEFAULT_DOCKER_LABEL_KEY} |-> get_clusterdock_label(cluster_name, installed)]

\* Containers found on the host before an invocation: an unmanaged one on
\* the default bridge, nodes of the clusters alpha and beta on net1, a node
\* labelled without a cluster name on net2, an unmanaged one on net1.
HostContainers ==
    << [hostname |-> "db", running |-> TRUE, labels |-> EmptyDict,
        networks |-> [n \in {"bridge"} |-> <<>>]],
       [hostname |-> "node-1.net1", running |-> TRUE,
        labels |-> OwnershipLabel("alpha", TRUE),
        networks |-> [n \in {"net1"} |-> <<"node-1", "a1">>]],
       [hostname |-> "node-2.net1", running |-> TRUE,
        labels |-> OwnershipLabel("beta", TRUE),
        networks |-> [n \in {"net1"} |-> <<"node-2", "b2">>]],
       [hostname |-> "node-1.net2", running |-> TRUE,
        labels |-> OwnershipLabel(None, TRUE),
        networks |-> [n \in {"net2"} |-> <<"node-1", "n1">>]],
       [hostname |-> "web", running |-> TRUE, labels |-> EmptyDict,
        networks |-> [n \in {"net1"} |-> <<"w5">>]] >>

\* The engine holding the containers picked (in the order of HostContainers),
\* those in stopped not running, with the networks they are on, the
\* pre-defined network and the user-defined networks in extra.
HostWith(picked, stopped, extra) ==
    LET chosen == SelectSeq(HostContainers, LAMBDA c : c \in picked)
    IN [containers |-> [id \in 1..Len(chosen) |->
                           [chosen[id] EXCEPT !.running = chosen[id] \notin stopped]],
        networks |-> [n \in NetNames |->
                         IF n \in PredefinedNets \cup extra
                            \/ \E c \in picked : n \in DOMAIN c.networks
                         THEN 1 ELSE 0],
        images |-> InitialLocalImages]

Hosts ==
    {HostWith(picked, stopped, extra) :
        picked \in {p \in SUBSET {HostContainers[i] : i \in DOMAIN HostContainers} :
                       Cardinality(p) <= MaxContainers},
        stopped \in SUBSET {HostContainers[i] : i \in DOMAIN HostContainers},
        extra \in {{}, {"net2"}}}

\* The clusters a topology builds.
Clusters ==
    { <<Node("node-1", "primary", "ok", EmptyDict),
        Node("node-2", "secondary", "ok", EmptyDict)>>,
      <<Node("node-1", "primary", "remote", EmptyDict)>>,
      <<Node("node-2", "primary", "ok", EmptyDict),
        Node("node-1", "primary", "absent", EmptyDict)>>,
      <<Node("node-1", "primary", "ok", EmptyDict),
        Node("node-1", "secondary", "ok", EmptyDict)>>,
      <<Node("node-2", "primary", "exits", EmptyDict)>>,
      <<Node("node-1", "primary", "ok", EmptyDict),
        Node("node-2", "primary", "untagged", EmptyDict)>>,
      <<Node("node-1", "primary", "exits", EmptyDict),
        Node("node-2", "primary", "ok", EmptyDict)>>,
      <<Node("node-1", "primary", "ok", EmptyDict),
        Node("node-2", "secondary", "ok", EmptyDict),
        Node("node-3", "primary", "ok", EmptyDict)>>,
      <<Node("node-2", "primary", "ok", [labels |-> OwnershipLabel("alpha", TRUE)])>> }

ClusterNames == {"alpha", "beta"}

\* Orders in which the engine may list the networks.
NetworkOrders == { <<"bridge", "net1", "net2">>, <<"net2", "net1", "bridge">> }

\* The sets of networks whose removal may fail inside the engine.
EngineFaults == {{}, {"net2"}}

\* ------------------------------------------------------------- actions --
Init ==
    /\ \E host \in Hosts :
          /\ containers = host.containers
          /\ networks = host.networks
          /\ images = host.images
    /\ last = [op |-> "none"]

\* What a start of cluster on network, with the outcome r, leaves in last.
StartRecord(cluster, network, pull_images, r) ==
    [op |-> "start", network |-> network,
     pull_images |-> pull_images,
     node_groups |-> cluster.node_groups,
     nodes |-> r.nodes, raised |-> r.raised,
     duplicates |-> r.duplicates,
     error_network |-> r.error_network,
     network_created |-> r.network_created,
     started |-> r.started, pulls |-> r.pulls,
     node_pulls |-> r.node_pulls, creates |-> r.creates,
     waited |-> r.waited,
     created |-> DOMAIN r.engine.containers \ DOMAIN containers]

\* A topology's start action: Cluster(*nodes).start(network, pull_images).
Start ==
    \E nodes \in Clusters, network \in UserNets, pull_images \in BOOLEAN :
        /\ Cardinality(DOMAIN containers) + Len(nodes) <= MaxContainers
        /\ \E cluster \in {Cluster(nodes)} :
           \E r \in {ClusterStart(Engine, cluster, network, pull_images)} :
              /\ containers' = r.engine.containers
              /\ networks' = r.engine.networks
              /\ images' = r.engine.images
              /\ last' = StartRecord(cluster, network, pull_images, r)

Next == Start

Spec == Init /\ [][Next]_vars

\* What manage.main(args), with the outcome r, leaves in last.
ManageRecord(args, r) ==
    [op |-> "manage", args |-> args,
     raised |-> r.raised, log |-> r.log,
     calls |-> r.calls, candidates |-> r.candidates,
     removed_containers |-> r.removed_containers,
     removed_networks |-> r.removed_networks]

\* manage.main(args) against the engine; faulty are the networks whose
\* removal the engine fails for a reason of its own.
Manage(args) ==
    \E order \in NetworkOrders,
       faulty \in IF args.dry_run THEN {{}} ELSE EngineFaults :
        \E r \in {ManageMain(Engine, args, order, faulty)} :
           /\ containers' = r.engine.containers
           /\ networks' = r.engine.networks
           /\ images' = r.engine.images
           /\ last' = ManageRecord(args, r)

\* The namespaces of
\*   clusterdock manage [--dry-run] nuke [--all]
NukeArgs ==
    {[manage_action |-> "nuke", dry_run |-> dry_run, all |-> all] :
        dry_run \in BOOLEAN, all \in BOOLEAN}

\* of manage.main for the remove action, with the cluster names under the
\* attribute the handler reads (cluster_names) ...
RemoveArgs ==
    {[manage_action |-> "remove", dry_run |-> dry_run,
      network |-> network, cluster_names |-> names] :
        names \in SUBSET ClusterNames \ {{}}, network \in BOOLEAN, dry_run \in BOOLEAN}

\* ... and as cli.main's remove_parser collects them (clusters).
RemoveFromCliArgs ==
    {[manage_action |-> "remove", dry_run |-> dry_run,
      network |-> FALSE, clusters |-> names] :
        names \in SUBSET ClusterNames \ {{}}, dry_run \in BOOLEAN}

Nuke == \E args \in NukeArgs : Manage(args)

Remove == \E args \in RemoveArgs : Manage(args)

RemoveFromCli == \E args \in RemoveFromCliArgs : Manage(args)

NextManage == Nuke \/ Remove \/ RemoveFromCli

SpecManage == Init /\ [][NextManage]_vars

\* ------------------------------------------------ cp, one invocation --
Paths == {"/f", "/g"}
CpHostnames == {"node-1.net1", "node-2.net1", "web.net1"}

\* The endpoints of cp: local paths, <hostname>:<path>, and strings with
\* no hostname, no path or a second separator.
Endpoints ==
    {<<p>> : p \in Paths}
        \cup {<<h, ":", p>> : h \in CpHostnames, p \in Paths}
        \cup { <<":">>, <<"node-1.net1", ":">>, <<":", "/f">>,
               <<"node-1.net1", ":", "/f", ":", "/g">> }

\* clusterdock cp <source> <destination>
Cp ==
    \E source \in Endpoints, destination \in Endpoints :
        /\ last.op = "none"
        /\ LET args == [source |-> source, destination |-> destination,
                        archive |-> FALSE, follow_link |-> FALSE]
               r == CpMain(Engine, args)
           IN last' = [op |-> "cp", args |-> args, raised |-> r.raised,
                       lookups |-> r.lookups, copies |-> r.copies]
        /\ UNCHANGED <<containers, networks, images>>

NextCp == Cp

SpecCp == Init /\ [][NextCp]_vars

\* ------------------------------------- the ownership label, round trip --
MaxNameLen == 3
NameChars == {"a", "b", "_"}

RECURSIVE StringsUpTo(_)
StringsUpTo(n) ==
    IF n = 0 THEN {""}
    ELSE LET shorter == StringsUpTo(n - 1)
         IN shorter \cup {s \o c : s \in shorter, c \in NameChars}

\* The cluster_name arguments of get_clusterdock_label.
NameInputs == StringsUpTo(MaxNameLen) \cup {None}

\* utils.get_containers(clusterdock): the same scan as _get_containers, its
\* entries being Container(cluster_name, container).
get_containers(e, clusterdock) ==
    LET scan == _get_containers(e, clusterdock)
    IN [raised |-> scan.raised,
        containers |-> [i \in DOMAIN scan.tuples |->
                           [cluster_name |-> scan.tuples[i][2],
                            container |-> scan.tuples[i][1]]]]

InitLabel ==
    /\ containers = EmptyDict
    /\ networks = [n \in NetNames |-> IF n \in PredefinedNets THEN 1 ELSE 0]
    /\ images = InitialLocalImages
    /\ \E cluster_name \in NameInputs, installed \in BOOLEAN :
          last = [op |-> "none", cluster_name |-> cluster_name, installed |-> installed]

\* A container is run with the label get_clusterdock_label returns, and
\* the host is scanned by both readers.
LabelAndScan ==
    /\ last.op = "none"
    /\ containers' = [id \in {1} |->
                         [hostname |-> "node-1.net1", running |-> TRUE,
                          labels |-> OwnershipLabel(last.cluster_name, last.installed),
                          networks |-> [n \in {"bridge"} |-> <<>>]]]
    /\ UNCHANGED <<networks, images>>
    /\ last' = [op |-> "scan", cluster_name |-> last.cluster_name,
                installed |-> last.installed,
                manage |-> _get_containers(Engine', TRUE),
                utils |-> get_containers(Engine', TRUE)]

NextLabel == LabelAndScan

SpecLabel == InitLabel /\ [][NextLabel]_vars

\* =============================================================== claims ==
Hostnames(nodes) == {nodes[i].hostname : i \in DOMAIN nodes}
DistinctHostnames(nodes) ==
    \A i, j \in DOMAIN nodes : i # j => nodes[i].hostname # nodes[j].hostname
Elements(seq) == {seq[i] : i \in DOMAIN seq}

Colliding(e, nodes, network) ==
    {h \in Hostnames(nodes) :
        \E c \in NetworkContainers(e, network) : e.containers[c].networks[network][1] = h}

\* C2: when a hostname of the cluster is the alias of a container attached
\* to the target network, Cluster.start raises DuplicateHostnamesError with
\* exactly the colliding hostnames and the network name, and creates no
\* container.
C2_DuplicateHostnames ==
    [][(/\ last'.op = "start"
        /\ Colliding(Engine, last'.nodes, last'.network) # {})
       => /\ last'.raised = "DuplicateHostnamesError"
          /\ Elements(last'.duplicates) = Colliding(Engine, last'.nodes, last'.network)
          /\ Len(last'.duplicates) = Cardinality(Elements(last'.duplicates))
          /\ last'.error_network = last'.network
          /\ last'.created = {}
          /\ containers' = containers]_vars

C2_Witness ==
    /\ last.op = "start"
    /\ last.raised = "DuplicateHostnamesError"
    /\ Len(last.nodes) = 2
    /\ DistinctHostnames(last.nodes)
    /\ Len(last.duplicates) = 1

\* C3: Cluster.start on a network name the engine already has reuses that
\* network: no API error reaches the caller, there is still one network of
\* the name, and start goes on to the collision check and the node start.
C3_NetworkReuse ==
    [][(/\ last'.op = "start"
        /\ networks[last'.network] > 0)
       => /\ last'.raised # "APIError"
          /\ ~last'.network_created
          /\ networks'[last'.network] = 1
          /\ \/ last'.raised = "DuplicateHostnamesError"
             \/ last'.started # <<>>]_vars

C3_Witness ==
    /\ last.op = "start"
    /\ ~last.network_created
    /\ last.raised = None
    /\ last.created # {}
    /\ networks[last.network] = 1

\* C4: for a cluster name (a non-empty string; the package metadata being
\* found), the label get_clusterdock_label produces decodes, in
\* manage._get_containers and in utils.get_containers, to that same name.
C4_LabelRoundTrip ==
    (/\ last.op = "scan"
     /\ Truthy(last.cluster_name)
     /\ last.installed)
    => /\ last.manage.raised = None
       /\ last.manage.tuples = << <<1, last.cluster_name>> >>
       /\ last.utils.raised = None
       /\ Len(last.utils.containers) = 1
       /\ last.utils.containers[1].cluster_name = last.cluster_name

C4_Witness ==
    /\ last.op = "scan"
    /\ last.installed
    /\ last.cluster_name = "a_b"
    /\ last.manage.tuples = << <<1, "a_b">> >>

\* ------------------------------------------------- teardown, the claims --
\* A step of manage.main for the given action.
ManageStep(action) ==
    last'.op = "manage" /\ last'.args.manage_action = action

\* The cluster names a remove was asked for, under either attribute.
Requested(args) ==
    IF "cluster_names" \in DOMAIN args THEN args.cluster_names ELSE args.clusters

\* The container carries the ownership label and its decoded cluster name
\* is in S.
DecodedIn(attrs, S) ==
    /\ DEFAULT_DOCKER_LABEL_KEY \in DOMAIN attrs.labels
    /\ LET decoded == DecodeClusterName(attrs.labels[DEFAULT_DOCKER_LABEL_KEY])
       IN "value" \in DOMAIN decoded /\ decoded.value \in S

\* The containers this step removed.
Removed == DOMAIN containers \ DOMAIN containers'

\* C5: a live `manage remove` for the cluster names S removes every
\* container whose decoded cluster name is in S and no other container:
\* the containers left are exactly those labelled with a name outside S and
\* those without the ownership label (or without a cluster name in it).
C5_RemoveExactlyRequested ==
    [][(ManageStep("remove") /\ ~last'.args.dry_run)
       => /\ Removed = {c \in DOMAIN containers :
                           DecodedIn(containers[c], Requested(last'.args))}
          /\ \A c \in DOMAIN containers' : containers'[c] = containers[c]]_vars

\* C6 as stated: `manage remove` removes a network only if a removed
\* container was attached to it and no container outside the removed set is
\* attached to it; every other network still exists afterwards.
C6_OnlyExclusiveNetworks ==
    [][ManageStep("remove")
       => \A n \in NetNames :
             /\ networks'[n] <= networks[n]
             /\ networks'[n] < networks[n]
                => /\ \E c \in Removed : n \in DOMAIN containers[c].networks
                   /\ \A c \in DOMAIN containers' :
                         n \notin DOMAIN containers'[c].networks]_vars

\* C6, amended: `manage remove` removes a network only if the network
\* settings of a removed container listed it and no running container is
\* left attached to it (a stopped container outside the removed set does not
\* keep it); every other network still exists afterwards, and a pre-defined
\* network always does.
C6_OnlyUnusedNetworksOfRemoved ==
    [][ManageStep("remove")
       => \A n \in NetNames :
             /\ networks'[n] <= networks[n]
             /\ networks'[n] < networks[n]
                => /\ \E c \in Removed : n \in DOMAIN containers[c].networks
                   /\ NetworkContainers(Engine', n) = {}
                   /\ n \notin PredefinedNets
                   /\ last'.args.network
                   /\ ~last'.args.dry_run]_vars

\* A remove took a network away that a stopped container outside the
\* removed set still lists, and left another user-defined network alone.
C6_Witness ==
    /\ last.op = "manage"
    /\ last.args.manage_action = "remove"
    /\ last.removed_containers # <<>>
    /\ \E n \in Elements(last.removed_networks) :
          /\ networks[n] = 0
          /\ \E c \in DOMAIN containers :
                n \in DOMAIN containers[c].networks /\ ~containers[c].running
    /\ \E n \in UserNets : networks[n] = 1

\* C7: a live `manage nuke --all` removes every container on the host,
\* running or stopped, labelled or not, and attempts the removal of every
\* network on the host; a network refused as pre-defined or as having
\* active endpoints does not make it fail (the one error that may leave it
\* is the engine failing a removal for another reason).
C7_NukeAllRemovesEverything ==
    [][(ManageStep("nuke") /\ last'.args.all /\ ~last'.args.dry_run)
       => /\ DOMAIN containers' = {}
          /\ last'.raised \in {None, "APIError"}
          /\ last'.raised = None
             => \A n \in ListNetworks(Engine) :
                   <<"network.remove", n>> \in Elements(last'.calls)
          /\ last'.raised = "APIError"
             => LET n == last'.calls[Len(last'.calls)][2]
                IN n \notin PredefinedNets /\ NetworkContainers(Engine', n) = {}]_vars

\* The entries of a log that start with the given words.
Proj(log, words) == SelectSeq(log, LAMBDA entry : entry[1] = words)

\* C8: in dry-run mode no teardown path (nuke, nuke --all, remove with or
\* without --network) makes a mutating engine call: no container is removed,
\* no helper container is run, no network is removed, and the engine's
\* containers and networks are unchanged.
C8_DryRunMutatesNothing ==
    [][(last'.op = "manage" /\ last'.args.dry_run)
       => /\ last'.calls = <<>>
          /\ last'.removed_containers = <<>>
          /\ last'.removed_networks = <<>>
          /\ containers' = containers
          /\ networks' = networks
          /\ images' = images]_vars

\* A dry run that selected containers and candidate networks.
C8_Witness ==
    /\ last.op = "manage"
    /\ last.args.dry_run
    /\ Proj(last.log, "Removing container") # <<>>
    /\ Proj(last.log, "Removing network") # <<>>
    /\ DOMAIN containers # {}
    /\ last.calls = <<>>

\* The same invocation, live.
Live(args) == [args EXCEPT !.dry_run = FALSE]

C10_CpValidation ==
    (/\ last.op = "cp"
     /\ \/ ~Contains(last.args.source, ":") /\ ~Contains(last.args.destination, ":")
        \/ last.args.source = last.args.destination)
    => /\ last.raised = "ValueError"
       /\ last.lookups = <<>>
       /\ last.copies = <<>>

\* cp of a node's file onto itself, the node's container running.
C10_Witness ==
    /\ last.op = "cp"
    /\ last.args.source = last.args.destination
    /\ Contains(last.args.source, ":")
    /\ \E c \in ListRunning(Engine) : containers[c].hostname = last.args.source[1]
    /\ last.raised = "ValueError"
    /\ last.lookups = <<>>

\* ------------------------------------------- start, the later claims --
\* The containers a label-filtered scan of the engine selects.
Selected(e) ==
    LET scan == _get_containers(e, TRUE)
    IN {scan.tuples[i][1] : i \in DOMAIN scan.tuples}

\* C11: every container Cluster.start / Node.start creates carries the
\* ownership label under the label key, and after a successful Cluster.start
\* the label-filtered scan selects every container of the cluster.
C11_CreatedCarryLabel ==
    [][last'.op = "start"
       => /\ \A c \in last'.created :
                DEFAULT_DOCKER_LABEL_KEY \in DOMAIN containers'[c].labels
          /\ last'.raised = None => last'.created \subseteq Selected(Engine')]_vars

\* C12: a node whose container does not reach the running state before the
\* wait times out is a fatal error: TimeoutError leaves Node.start, and
\* Cluster.start aborts with it, no later node being started.
C12_TimeoutFatal ==
    [][last'.op = "start"
       => \A i \in DOMAIN last'.waited :
             last'.waited[i] = "failure"
             => /\ last'.raised = "TimeoutError"
                /\ Len(last'.started) = i]_vars

\* C13: no rollback.  When starting the k-th node of a cluster fails, the
\* containers of the nodes 1..k-1 this call started still exist and are
\* still running when the error reaches the caller, the network still
\* exists, and no container the host had is gone.
C13_NoRollback ==
    [][(/\ last'.op = "start"
        /\ last'.started # <<>>
        /\ last'.raised # None)
       => /\ \A i \in 1..(Len(last'.started) - 1) :
                LET node == last'.nodes[i]
                IN /\ "container" \in DOMAIN node
                   /\ node.container \in DOMAIN containers' \ DOMAIN containers
                   /\ last'.waited[i] = "success" => containers'[node.container].running
          /\ networks'[last'.network] = 1
          /\ \A c \in DOMAIN containers : containers'[c] = containers[c]]_vars

\* The second node's image is found nowhere; the first node's container
\* is running.
C13_Witness ==
    /\ last.op = "start"
    /\ last.raised = "ImageNotFound"
    /\ Len(last.started) = 2
    /\ "container" \in DOMAIN last.nodes[1]
    /\ last.nodes[1].container \in ListRunning(Engine)
    /\ networks[last.network] = 1

\* ------------------------------------------ teardown, the later claims --
\* The positions in calls of the engine calls of one kind.
CallsOf(calls, kind) == {i \in DOMAIN calls : calls[i][1] = kind}

\* C14: a live teardown removes the containers first, then the networks:
\* every selected container has been force-removed before the first
\* network removal is attempted, so a candidate user-defined network whose
\* attached containers were all in the selection is removed in the same
\* run (the run not being ended by an engine error).
C14_ContainersBeforeNetworks ==
    [][(last'.op = "manage" /\ ~last'.args.dry_run)
       => /\ \A i \in CallsOf(last'.calls, "container.remove"),
                j \in CallsOf(last'.calls, "network.remove") : i < j
          /\ {last'.calls[i][2] : i \in CallsOf(last'.calls, "container.remove")} = Removed
          /\ Len(last'.removed_containers) = Cardinality(Removed)
          /\ last'.raised = None
             => \A n \in Elements(last'.candidates) \cap UserNets :
                   NetworkContainers(Engine, n) \subseteq Removed => networks'[n] = 0]_vars

\* A live run removed a running container and then the network it was on.
C14_Witness ==
    /\ last.op = "manage"
    /\ ~last.args.dry_run
    /\ last.raised = None
    /\ CallsOf(last.calls, "container.remove") # {}
    /\ \E j \in CallsOf(last.calls, "network.remove") :
          /\ last.calls[j][2] \in UserNets
          /\ networks[last.calls[j][2]] = 0
          /\ \A i \in CallsOf(last.calls, "container.remove") : i < j

\* C15: `manage nuke` without --all selects the containers carrying the
\* ownership label: after a live run every container with the label,
\* running or stopped, has been removed, and every container without it
\* still exists, unchanged.
C15_NukeRemovesLabelled ==
    [][(ManageStep("nuke") /\ ~last'.args.all /\ ~last'.args.dry_run)
       => /\ Removed = {c \in DOMAIN containers :
                           DEFAULT_DOCKER_LABEL_KEY \in DOMAIN containers[c].labels}
          /\ \A c \in DOMAIN containers' : containers'[c] = containers[c]]_vars

\* ------------------------------------------- construction of the objects --
\* Node.__init__ and Cluster.__init__ next to the engine: the engine they
\* leave, the object, and the engine calls they made.
NodeInit(e, hostname, group, image, create_container_kwargs) ==
    [engine |-> e, self |-> Node(hostname, group, image, create_container_kwargs),
     calls |-> <<>>]

\* A variant that pulls every node's image when the cluster is built.
ClusterInit_PullsImages(e, nodes) ==
    LET wanted == {nodes[i].image : i \in DOMAIN nodes} \cap Registry
    IN [engine |-> [e EXCEPT !.images = @ \cup wanted], self |-> Cluster(nodes),
        calls |-> SelectSeq(<<"ok", "remote", "exits">>, LAMBDA image : image \in wanted)]

ClusterInit(e, nodes) ==
    [engine |-> e, self |-> Cluster(nodes), calls |-> <<>>]

\* Node(...) for each element of a topology's node list, then Cluster(*nodes).
RECURSIVE NodesInit(_, _, _)
NodesInit(acc, arguments, i) ==
    IF i > Len(arguments) THEN acc
    ELSE LET a == arguments[i]
             r == NodeInit(acc.engine, a.hostname, a.group, a.image,
                           a.create_container_kwargs)
         IN NodesInit([engine |-> r.engine, nodes |-> Append(acc.nodes, r.self),
                       calls |-> acc.calls \o r.calls],
                      arguments, i + 1)

ConstructObjects(e, arguments) ==
    LET built == NodesInit([engine |-> e, nodes |-> <<>>, calls |-> <<>>], arguments, 1)
        r == ClusterInit(built.engine, built.nodes)
    IN [engine |-> r.engine, self |-> r.self, calls |-> built.calls \o r.calls]

\* A topology builds its nodes and its cluster, and does not start it.
Construct ==
    \E arguments \in Clusters :
        \E r \in {ConstructObjects(Engine, arguments)} :
           /\ containers' = r.engine.containers
           /\ networks' = r.engine.networks
           /\ images' = r.engine.images
           /\ last' = [op |-> "construct", nodes |-> r.self.nodes,
                       node_groups |-> r.self.node_groups, calls |-> r.calls]

NextConstruct == Construct

SpecConstruct == Init /\ [][NextConstruct]_vars

\* C16: constructing Node and Cluster objects makes no engine call: the
\* engine's containers, networks and images are as they were.
C16_ConstructionIsPure ==
    [][last'.op = "construct"
       => /\ last'.calls = <<>>
          /\ containers' = containers
          /\ networks' = networks
          /\ images' = images]_vars

\* A cluster of two groups was built, one of its images not being local
\* and its network not existing.
C16_Witness ==
    /\ last.op = "construct"
    /\ Len(last.nodes) = 3
    /\ Len(last.node_groups) = 2
    /\ networks["net1"] = 0
    /\ DOMAIN containers # {}

\* C17: Cluster.start with pull_images=True pulls the image of every node,
\* also one the local store already has, before that node's container is
\* created.
C17_PullImagesPullsAll ==
    [][(last'.op = "start" /\ last'.pull_images)
       => \A i \in 1..Len(last'.started) :
             last'.nodes[i].image \in Elements(last'.pulls)]_vars

\* ------------------------------------------------ cp, the later claims --
\* The endpoint names a node (<hostname>:<path>) that no running container
\* has as its hostname.
MissingNode(e, endpoint) ==
    /\ Contains(endpoint, ":")
    /\ \A c \in ListRunning(e) : e.containers[c].hostname # Split(endpoint)[1]

\* C18: in cp, an endpoint <hostname>:<path> whose hostname matches no
\* running container raises NodeNotFoundError before any copy is made: in
\* the node-to-node case with the destination node missing, nothing is
\* copied out of the source node either.
C18_CpNodeNotFound ==
    (/\ last.op = "cp"
     /\ last.args.source # last.args.destination
     /\ \/ MissingNode(Engine, last.args.source)
        \/ MissingNode(Engine, last.args.destination))
    => /\ last.raised = "NodeNotFoundError"
       /\ last.copies = <<>>
       /\ Len(last.lookups) >= 1
       /\ MissingNode(Engine, <<last.lookups[Len(last.lookups)], ":">>)

\* Node to node: the source node was found, the destination node was not.
C18_Witness ==
    /\ last.op = "cp"
    /\ Contains(last.args.source, ":")
    /\ ~MissingNode(Engine, last.args.source)
    /\ MissingNode(Engine, last.args.destination)
    /\ Len(last.lookups) = 2
    /\ last.raised = "NodeNotFoundError"
    /\ last.copies = <<>>

\* ------------------------------------------------------------------ ps --
\* The order sorted() gives the cluster names of the model.
ClusterNameOrder == <<"alpha", "beta">>

\* ps.py:37-49: json.loads of the label, then label['version'] and
\* label['cluster_name'].
DecodePsLabel(text) ==
    LET label == json_loads(text)
    IN IF label = JSONDecodeError THEN [error |-> "JSONDecodeError"]
       ELSE IF "version" \notin DOMAIN label \/ "cluster_name" \notin DOMAIN label
       THEN [error |-> "KeyError"]
       ELSE [version |-> label["version"], cluster_name |-> label["cluster_name"]]

\* The loop of ps.main over client.containers.list(all=True).
RECURSIVE PsScanFrom(_, _, _)
PsScanFrom(e, id, acc) ==
    IF id > MaxContainers \/ acc.raised # None THEN acc
    ELSE IF id \notin ListAll(e) THEN PsScanFrom(e, id + 1, acc)
    ELSE LET attrs == e.containers[id]
         IN IF DEFAULT_DOCKER_LABEL_KEY \notin DOMAIN attrs.labels
            THEN PsScanFrom(e, id + 1, acc)
            ELSE LET label == DecodePsLabel(attrs.labels[DEFAULT_DOCKER_LABEL_KEY])
                 IN IF "error" \in DOMAIN label
                    THEN [acc EXCEPT !.raised = label.error]
                    ELSE PsScanFrom(e, id + 1,
                             [acc EXCEPT !.listed =
                                 Append(@, [id |-> ShortId(id),
                                            hostname |-> attrs.hostname,
                                            status |-> IF attrs.running THEN "running"
                                                       ELSE "exited",
                                            version |-> label.version,
                                            cluster_name |-> label.cluster_name,
                                            networks |-> DOMAIN attrs.networks])])

\* ps.main(args): the containers listed, the warning, and the tables
\* printed, one per cluster name in sorted order.
PsMain(e) ==
    LET scan == IF ListRunning(e) = {} THEN [listed |-> <<>>, raised |-> None]
                ELSE PsScanFrom(e, 1, [listed |-> <<>>, raised |-> None])
        names == SelectSeq(ClusterNameOrder,
                           LAMBDA name : \E i \in DOMAIN scan.listed :
                                            scan.listed[i].cluster_name = name)
    IN IF scan.raised # None
       THEN [raised |-> scan.raised, listed |-> <<>>, log |-> <<>>, tables |-> <<>>]
       ELSE IF scan.listed = <<>>
       THEN [raised |-> None, listed |-> <<>>,
             log |-> << <<"Didn't find any containers to list">> >>, tables |-> <<>>]
       ELSE [raised |-> None, listed |-> scan.listed, log |-> <<>>,
             tables |-> [k \in DOMAIN names |->
                           LET rows == SelectSeq(scan.listed,
                                           LAMBDA row : row.cluster_name = names[k])
                           IN [cluster |-> names[k], networks |-> rows[1].networks,
                               rows |-> rows]]]

\* clusterdock ps
Ps ==
    \E r \in {PsMain(Engine)} :
       /\ last' = [op |-> "ps", raised |-> r.raised, listed |-> r.listed,
                   log |-> r.log, tables |-> r.tables]
       /\ UNCHANGED <<containers, networks, images>>

\* Teardown and listing on one host.
NextInventory == Nuke \/ Remove \/ RemoveFromCli \/ Ps

SpecInventory == Init /\ [][NextInventory]_vars

\* The selection manage.main makes from engine e for args: the scan went
\* through and picked no container.
EmptySelection(e, args) ==
    /\ args.manage_action = "remove" => "cluster_names" \in DOMAIN args
    /\ \E scan \in {_get_containers(e, IF args.manage_action = "nuke"
                                       THEN ~args.all ELSE TRUE)} :
          /\ scan.raised = None
          /\ \A i \in DOMAIN scan.tuples :
                args.manage_action = "remove" /\ scan.tuples[i][2] \notin args.cluster_names

\* C19: nothing to do is not an error.  A teardown whose selection is
\* empty, or which removes no network, completes without raising and, when
\* live, with the warning (the one exception that may leave it is the
\* engine failing a network removal for a reason of its own); a ps that
\* finds no managed container completes with the warning.
C19_NothingToDoIsNoError ==
    [][/\ (last'.op = "manage" /\ EmptySelection(Engine, last'.args))
          => /\ last'.raised \in {None, "APIError"}
             /\ last'.raised = "APIError"
                => LET n == last'.calls[Len(last'.calls)][2]
                   IN n \notin PredefinedNets /\ NetworkContainers(Engine', n) = {}
             /\ ~last'.args.dry_run
                => Proj(last'.log, "Didn't find any containers to remove") # <<>>
             /\ containers' = containers
       /\ (/\ last'.op = "manage"
           /\ last'.raised # "APIError"
           /\ last'.removed_networks = <<>>
           /\ \E order \in NetworkOrders :
                 ManageMain(Engine, last'.args, order, {}).removed_containers # <<>>)
          => /\ last'.raised = None
             /\ (~last'.args.dry_run /\ last'.args.manage_action = "remove"
                    /\ last'.args.network)
                => Proj(last'.log, "Cannot remove network") # <<>>
       /\ (/\ last'.op = "ps"
           /\ \A c \in DOMAIN containers :
                 DEFAULT_DOCKER_LABEL_KEY \notin DOMAIN containers[c].labels)
          => /\ last'.raised = None
             /\ last'.tables = <<>>
             /\ last'.log = << <<"Didn't find any containers to list">> >>]_vars

\* A live remove that selected nothing on a host with running containers
\* and found no network to remove, having warned of both.
C19_Witness ==
    /\ last.op = "manage"
    /\ ~last.args.dry_run
    /\ last.args.manage_action = "remove"
    /\ last.args.network
    /\ last.raised = None
    /\ ListRunning(Engine) # {}
    /\ Proj(last.log, "Didn't find any containers to remove") # <<>>
    /\ Proj(last.log, "Cannot remove network") # <<>>

\* The containers carrying the label key.
Labelled(e) ==
    {c \in DOMAIN e.containers : DEFAULT_DOCKER_LABEL_KEY \in DOMAIN e.containers[c].labels}

\* C20: the inventory scan lists all containers, running and stopped.  For
\* every engine state the scan without the ownership filter returns exactly
\* the containers of the host, and the scan with the filter exactly the
\* containers carrying the label key, each paired with its decoded cluster
\* name, also when no container is running; ps lists the same containers.
C20_ScanListsAll ==
    /\ \A filter \in BOOLEAN :
          \A m \in {_get_containers(Engine, filter)}, u \in {get_containers(Engine, filter)} :
             LET expected == IF filter THEN Labelled(Engine) ELSE DOMAIN containers
             IN /\ m.raised = None
                /\ {m.tuples[i][1] : i \in DOMAIN m.tuples} = expected
                /\ Len(m.tuples) = Cardinality(expected)
                /\ u.raised = None
                /\ {u.containers[i].container : i \in DOMAIN u.containers} = expected
                /\ Len(u.containers) = Cardinality(expected)
                /\ \A i \in DOMAIN m.tuples :
                      /\ u.containers[i].container = m.tuples[i][1]
                      /\ u.containers[i].cluster_name = m.tuples[i][2]
                      /\ m.tuples[i][2] =
                            IF filter
                            THEN DecodeClusterName(
                                     containers[m.tuples[i][1]].labels[DEFAULT_DOCKER_LABEL_KEY]).value
                            ELSE None
    /\ last.op = "ps"
       => /\ last.raised = None
          /\ {last.listed[i].id : i \in DOMAIN last.listed}
                = {ShortId(c) : c \in Labelled(Engine)}

\* ------------------------------------------------ start, the later claims --
\* The hostnames of nodes, in order.
HostnamesOf(nodes) == [i \in DOMAIN nodes |-> nodes[i].hostname]

\* seq is the beginning of whole.
IsPrefix(seq, whole) ==
    /\ Len(seq) <= Len(whole)
    /\ \A i \in DOMAIN seq : seq[i] = whole[i]

\* The nodes of every group were passed to the constructor side by side.
Contiguous(cluster) == Flatten(cluster.node_groups, 1) = [i \in DOMAIN cluster.nodes |-> i]

\* The hostnames of the cluster's nodes, group by group.
GroupOrderHostnames(cluster) ==
    LET order == Flatten(cluster.node_groups, 1)
    IN [i \in DOMAIN order |-> cluster.nodes[order[i]].hostname]

\* The cluster object of the start recorded in l.
StartedCluster(l) ==
    [nodes |-> [i \in DOMAIN l.nodes |->
                   [k \in {"hostname", "group", "image", "create_container_kwargs"} |->
                       l.nodes[i][k]]],
     node_groups |-> l.node_groups]

\* C21 as stated: the nodes are started in group order then member order,
\* whatever the order in which the constructor received them.
C21_StartInGroupOrder ==
    [][last'.op = "start"
       => IsPrefix(last'.started, GroupOrderHostnames(StartedCluster(last')))]_vars

\* C21, amended: Cluster.start starts the nodes one at a time in the order
\* the constructor received them, which is group order then member order
\* exactly when the nodes of each group were passed side by side; node i+1
\* is not touched before the start of node i has returned, and not at all
\* when it raised.
C21_StartInConstructorOrder ==
    [][last'.op = "start"
       => /\ IsPrefix(last'.started, HostnamesOf(last'.nodes))
          /\ Contiguous(StartedCluster(last'))
             => IsPrefix(last'.started, GroupOrderHostnames(StartedCluster(last')))
          /\ \A i \in DOMAIN last'.nodes :
                /\ i > Len(last'.started) => "fqdn" \notin DOMAIN last'.nodes[i]
                /\ i <= Len(last'.started) => "fqdn" \in DOMAIN last'.nodes[i]
                /\ i < Len(last'.started) => "host_ports" \in DOMAIN last'.nodes[i]
          /\ \A i, j \in DOMAIN last'.nodes :
                (/\ i < j
                 /\ "container" \in DOMAIN last'.nodes[i]
                 /\ "container" \in DOMAIN last'.nodes[j])
                => last'.nodes[i].container < last'.nodes[j].container
          /\ last'.raised # None /\ last'.started # <<>>
             => "host_ports" \notin DOMAIN last'.nodes[Len(last'.started)]]_vars

\* A cluster whose first group's members were passed with a node of the
\* second group between them has been started whole.
C21_Witness ==
    /\ last.op = "start"
    /\ last.raised = None
    /\ Len(last.started) = 3
    /\ ~Contiguous(StartedCluster(last))
    /\ last.started = HostnamesOf(last.nodes)

DerivedFields == {"fqdn", "container", "ip_address", "host_ports"}

C24_UniqueAliases ==
    \A n \in NetNames :
       \A c, d \in NetworkContainers(Engine, n) :
          c # d => containers[c].networks[n][1] # containers[d].networks[n][1]

\* The network the i-th engine call of l.calls is made on.
CalledOn(l, i) == l.calls[i][2]

\* C25: during network removal exactly the refusals "is a pre-defined
\* network and cannot be removed" and "has active endpoints" are passed
\* over, the loop going on to the next network; any other engine error of a
\* removal ends the run as an APIError at that call; and the networks
\* reported as removed are those whose removal returned, which are the only
\* networks that changed.
C25_SwallowExactlyTwo ==
    [][(last'.op = "manage" /\ ~last'.args.dry_run)
       => LET removals == CallsOf(last'.calls, "network.remove")
              refused(n) == n \in PredefinedNets \/ NetworkContainers(Engine', n) # {}
              reported == {last'.log[i][2] : i \in {j \in DOMAIN last'.log :
                                                        last'.log[j][1] = "Removed network"}}
          IN /\ \A i \in removals :
                   LET n == CalledOn(last', i)
                   IN /\ refused(n)
                         => /\ networks'[n] = networks[n]
                            /\ n \notin Elements(last'.removed_networks)
                            /\ last'.raised = "APIError" => i < Len(last'.calls)
                      /\ ~refused(n)
                         => \/ /\ networks'[n] = networks[n] - 1
                               /\ n \in Elements(last'.removed_networks)
                            \/ /\ last'.raised = "APIError"
                               /\ i = Len(last'.calls)
                               /\ networks'[n] = networks[n]
                               /\ n \notin Elements(last'.removed_networks)
             /\ last'.raised = "APIError"
                => /\ last'.calls # <<>>
                   /\ Len(last'.calls) \in removals
                   /\ ~refused(CalledOn(last', Len(last'.calls)))
             /\ last'.raised = None
                => /\ Cardinality(removals) = Len(last'.candidates)
                   /\ {CalledOn(last', i) : i \in removals} = Elements(last'.candidates)
                   /\ reported = Elements(last'.removed_networks)
             /\ reported \subseteq Elements(last'.removed_networks)
             /\ \A n \in NetNames :
                   networks'[n] # networks[n] <=> n \in Elements(last'.removed_networks)]_vars

\* A run that passed over a refusal, removed a network and was then ended
\* by an engine error of another kind.
C25_Witness ==
    /\ last.op = "manage"
    /\ ~last.args.dry_run
    /\ last.raised = "APIError"
    /\ last.removed_networks # <<>>
    /\ \E i \in CallsOf(last.calls, "network.remove") : CalledOn(last, i) \in PredefinedNets

\* The places (group, position) at which node i is a member in groups.
PlacesOf(groups, i) ==
    {<<g, k>> : g \in DOMAIN groups, k \in 1..MaxContainers} \cap
    {p \in (DOMAIN groups) \X (1..MaxContainers) :
        p[2] \in DOMAIN groups[p[1]].nodes /\ groups[p[1]].nodes[p[2]] = i}

\* C26: every node passed to the constructor is a member of exactly one
\* NodeGroup, the one named node.group; there is one group per name, the
\* members of a group are in constructor argument order, the members of all
\* groups together are the cluster's nodes, no group is empty, and
\* Cluster.start leaves the groups and every node's group as they were built.
C26_OneGroupPerNode ==
    [][last'.op = "start"
       => LET groups == last'.node_groups
              nodes == last'.nodes
          IN /\ \A i \in DOMAIN nodes :
                   /\ Cardinality(PlacesOf(groups, i)) = 1
                   /\ \A p \in PlacesOf(groups, i) : groups[p[1]].name = nodes[i].group
             /\ \A g, h \in DOMAIN groups : groups[g].name = groups[h].name => g = h
             /\ \A g \in DOMAIN groups :
                   /\ groups[g].nodes # <<>>
                   /\ \A k, l \in DOMAIN groups[g].nodes :
                         k < l => groups[g].nodes[k] < groups[g].nodes[l]
             /\ UNION {Elements(groups[g].nodes) : g \in DOMAIN groups} = DOMAIN nodes
             /\ groups = Cluster(StartedCluster(last').nodes).node_groups]_vars

\* A started cluster of three nodes in two groups, the first group holding
\* the first and the third node.
C26_Witness ==
    /\ last.op = "start"
    /\ last.raised = None
    /\ Len(last.nodes) = 3
    /\ Len(last.node_groups) = 2
    /\ last.node_groups[1].nodes = <<1, 3>>
    /\ last.node_groups[2].nodes = <<2>>

\* ----------------------------------------- wait_for_condition on its own --
\* The clock runs from 0 to MaxTime.
MaxTime == 5

\* What condition() returns by the time of the call.
Conditions == [0..MaxTime -> BOOLEAN]

InitWait ==
    /\ containers = EmptyDict
    /\ networks = [n \in NetNames |-> IF n \in PredefinedNets THEN 1 ELSE 0]
    /\ images = InitialLocalImages
    /\ \E condition \in Conditions, timeout \in 0..MaxTime,
          time_to_success \in 0..MaxTime, time_between_checks \in 1..2 :
          last = [op |-> "none", condition |-> condition, timeout |-> timeout,
                  time_to_success |-> time_to_success,
                  time_between_checks |-> time_between_checks]

\* wait_for_condition(condition, time_between_checks=..., timeout=...,
\* time_to_success=..., success=success, failure=failure)
Wait ==
    /\ last.op = "none"
    /\ \E r \in {wait_for_condition(last.condition, last.time_between_checks,
                                    last.timeout, last.time_to_success)} :
          last' = [op |-> "wait", condition |-> last.condition, timeout |-> last.timeout,
                   time_to_success |-> last.time_to_success,
                   time_between_checks |-> last.time_between_checks,
                   called |-> r.called, arg |-> r.arg]
    /\ UNCHANGED <<containers, networks, images>>

NextWait == Wait

SpecWait == InitWait /\ [][NextWait]_vars

\* The times at which the call recorded in l checks the condition, were it
\* never to return: every time_between_checks from 0, before the timeout.
CheckTimes(l) == {t \in 0..MaxTime : t < l.timeout /\ t % l.time_between_checks = 0}

\* At check time t the condition has been true on every check since a check
\* at least time_to_success earlier.
HeldAt(l, t) ==
    \E s \in CheckTimes(l) :
       /\ s + l.time_to_success <= t
       /\ \A u \in CheckTimes(l) : (s <= u /\ u <= t) => l.condition[u]

Core(l) ==
    IF l.op = "start"
    THEN [op |-> "start", nodes |-> StartedCluster(l).nodes, network |-> l.network,
          raised |-> l.raised, created |-> l.created]
    ELSE IF l.op = "manage"
    THEN [op |-> "manage", args |-> l.args, raised |-> l.raised]
    ELSE [op |-> "none"]

\* The two invocations before the one being made, the latest first.
Follows == <<Core(last), IF "follows" \in DOMAIN last THEN last.follows[1] ELSE Core([op |-> "none"])>>

\* A session makes at most MaxSteps invocations.
MaxSteps == 3

\* The hosts a session of invocations begins on.
LifeHosts == {host \in Hosts : Cardinality(DOMAIN host.containers) <= 1}

\* The clusters started in a session: two nodes, a labelled node, a node
\* whose container exits, two nodes of one hostname.
LifeClusters ==
    { <<Node("node-1", "primary", "ok", EmptyDict),
        Node("node-2", "secondary", "ok", EmptyDict)>>,
      <<Node("node-2", "primary", "ok", [labels |-> OwnershipLabel("alpha", TRUE)])>>,
      <<Node("node-2", "primary", "exits", EmptyDict)>>,
      <<Node("node-1", "primary", "ok", EmptyDict),
        Node("node-1", "secondary", "ok", EmptyDict)>> }

\* The live teardowns made in a session.
LifeArgs == {args \in NukeArgs \cup RemoveArgs : ~args.dry_run}

InitLife ==
    /\ \E host \in LifeHosts :
          /\ containers = host.containers
          /\ networks = host.networks
          /\ images = host.images
    /\ last = [op |-> "none", step |-> 0]

\* Cluster(*nodes).start(network, pull_images) within a session.
LifeStart ==
    \E nodes \in LifeClusters, network \in UserNets, pull_images \in {FALSE} :
        /\ last.step < MaxSteps
        /\ Cardinality(DOMAIN containers) + Len(nodes) <= MaxContainers
        /\ \E cluster \in {Cluster(nodes)} :
           \E r \in {ClusterStart(Engine, cluster, network, pull_images)} :
              /\ containers' = r.engine.containers
              /\ networks' = r.engine.networks
              /\ images' = r.engine.images
              /\ last' = [follows |-> Follows, step |-> last.step + 1]
                            @@ StartRecord(cluster, network, pull_images, r)

\* manage.main(args) within a session.
LifeTeardown ==
    \E args \in LifeArgs, order \in {<<"bridge", "net1", "net2">>} :
        \E r \in {ManageMain(Engine, args, order, {})} :
           /\ last.step < MaxSteps
           /\ containers' = r.engine.containers
           /\ networks' = r.engine.networks
           /\ images' = r.engine.images
           /\ last' = [follows |-> Follows, step |-> last.step + 1] @@ ManageRecord(args, r)

NextLife == LifeStart \/ LifeTeardown

SpecLife == InitLife /\ [][NextLife]_vars

\* The start recorded in l is the call core made, once more.
SameCall(l, core) ==
    /\ l.op = "start"
    /\ core.op = "start"
    /\ StartedCluster(l).nodes = core.nodes
    /\ l.network = core.network

C29_EveryLabelScans ==
    (last.op = "scan")
    => /\ last.manage.raised = None
       /\ last.utils.raised = None
       /\ PsMain(Engine).raised = None
       /\ \A args \in RemoveArgs, order \in NetworkOrders :
             ManageMain(Engine, args, order, {}).raised = None

\* C30: manage remove filters on the cluster names the command line parser
\* collected.  An invocation with the namespace of
\* `clusterdock manage remove <cluster...>` reaches the selection of
\* containers, made on exactly the names given, and does not fail on a
\* missing attribute.
C30_RemoveReadsParsedNames ==
    [][(/\ last'.op = "manage"
        /\ last'.args.manage_action = "remove"
        /\ "clusters" \in DOMAIN last'.args)
       => /\ last'.raised # "AttributeError"
          /\ \E i \in DOMAIN last'.log :
                /\ last'.log[i][1] = "Stopping and removing containers from cluster(s)"
                /\ last'.log[i][2] = last'.args.clusters]_vars

====
